---- MODULE Spec2Model ----
(***************************************************************************)
(* Model of the nuget_publish action (class Publisher).  A run is the      *)
(* promise chain of Publisher.run: every action below is one synchronous   *)
(* stretch of JavaScript between two waits on the event loop, or one       *)
(* statement of such a stretch; callbacks of pending I/O (fs.readFile)     *)
(* fire only while the chain waits on a network request.                   *)
(*                                                                         *)
(* Strings are sequences of symbols: single characters, and opaque chunks  *)
(* for texts the program never looks into (a version, "undefined").        *)
(***************************************************************************)
EXTENDS Integers, Sequences, FiniteSets, TLC

\* ------------------------------------------------------------------ bounds
\* Largest number of entries of PROJECT_FILE_PATHS explored.
MaxProjects == 2
\* Longest suffix template explored by the suffix specification.
MaxTemplateLen == 4

\* --------------------------------------------------------- string helpers
\* String(undefined): what a template literal or replace() makes of an unset value
Undefined == <<"undefined">>

Min(a, b) == IF a <= b THEN a ELSE b

\* String.prototype.startsWith
StartsWith(s, p) == Len(p) <= Len(s) /\ SubSeq(s, 1, Len(p)) = p

\* String.prototype.substring(0, n)
Substring0(s, n) == SubSeq(s, 1, Min(n, Len(s)))

\* s.replace(/\*/g, rep): every "*" of s replaced by the string rep
RECURSIVE ReplaceStars(_, _)
ReplaceStars(s, rep) ==
    IF s = <<>> THEN <<>>
    ELSE (IF Head(s) = "*" THEN rep ELSE <<Head(s)>>) \o ReplaceStars(Tail(s), rep)

\* Array.prototype.includes
Includes(list, x) == \E i \in 1..Len(list) : list[i] = x

\* Array.prototype.indexOf(x) > -1, on the versions array of the registry
IndexOfFound(versions, x) == x \in versions

\* The pieces of s.split('='), all of them
RECURSIVE SplitAll(_, _)
SplitAll(s, cur) ==
    IF s = <<>> THEN <<cur>>
    ELSE IF Head(s) = "=" THEN <<cur>> \o SplitAll(Tail(s), <<>>)
    ELSE SplitAll(Tail(s), Append(cur, Head(s)))

\* s.split('=', 2)[1]: the second piece, or undefined when there is none
SplitSecond(s) ==
    LET pieces == SplitAll(s, <<>>)
    IN  IF Len(pieces) >= 2 THEN pieces[2] ELSE Undefined

\* ------------------------------------------------------- run configuration
\* The inputs of the documented workflow.
TagCommits == << <<"d","e","v","e","l","o","p">>, <<"m","a","i","n">> >>
TagFormat == <<"v", "*">>
BranchVersionSuffixes ==
    << <<"d","e","v","e","l","o","p","=","p","r","e","-","{","y","y","o","o","o","H","H","m","m","}","-","*">> >>
\* Branch names a run may be started on (GITHUB_REF without refs/heads/).
Branches == { <<"d","e","v","e","l","o","p">>, <<"m","a","i","n">>, <<"f","i","x">> }
\* The triggering commit (github.context.sha) and the versions manifests declare.
CommitSha == <<"a","b","c","1","2","3","4","5","6","7">>
Versions == {"1.2.0", "2.0.0"}

\* ------------------------------------------------- luxon DateTime.toFormat
\* this.now, 2024-03-05T14:07Z, rendered token by token: a token is a run of
\* one repeated letter; a run that is no token of the formatter is copied.
TokenValue(run) ==
    CASE run = <<"y","y">> -> <<"2","4">>
      [] run = <<"M","M">> -> <<"0","3">>
      [] run = <<"o","o","o">> -> <<"0","6","5">>
      [] run = <<"H","H">> -> <<"1","4">>
      [] run = <<"m","m">> -> <<"0","7">>
      [] run = <<"d">> -> <<"5">>
      [] run = <<"d","d">> -> <<"0","5">>
      [] OTHER -> run

\* Length of the run of Head(s) at the start of s
RECURSIVE RunLen(_)
RunLen(s) ==
    IF Len(s) <= 1 THEN Len(s)
    ELSE IF s[2] = s[1] THEN 1 + RunLen(Tail(s)) ELSE 1

RECURSIVE toFormat(_)
toFormat(fmt) ==
    IF fmt = <<>> THEN <<>>
    ELSE LET n == RunLen(fmt)
         IN  TokenValue(SubSeq(fmt, 1, n)) \o toFormat(SubSeq(fmt, n + 1, Len(fmt)))

\* ------------------------------------------------------ suffix computation
ShortShaLen == 7

\* /{([^}]+)}/ matches s[i..j]: "{", one or more symbols that are not "}", "}"
IsDateMatch(s, i, j) ==
    /\ s[i] = "{"
    /\ j >= i + 2
    /\ s[j] = "}"
    /\ \A k \in (i + 1)..(j - 1) : s[k] # "}"

HasDateMatch(s) == \E i, j \in 1..Len(s) : IsDateMatch(s, i, j)

\* Start of the leftmost match, and its end
DateMatchStart(s) ==
    CHOOSE i \in 1..Len(s) :
        /\ \E j \in 1..Len(s) : IsDateMatch(s, i, j)
        /\ \A i2 \in 1..(i - 1) : ~ \E j \in 1..Len(s) : IsDateMatch(s, i2, j)

DateMatchEnd(s) == CHOOSE j \in 1..Len(s) : IsDateMatch(s, DateMatchStart(s), j)

_performDateInfill(versionSuffix) ==
    IF ~ HasDateMatch(versionSuffix) THEN versionSuffix
    ELSE LET i == DateMatchStart(versionSuffix)
             j == DateMatchEnd(versionSuffix)
             formatString == SubSeq(versionSuffix, i + 1, j - 1)
             dateFormatted == toFormat(formatString)
         IN  SubSeq(versionSuffix, 1, i - 1) \o dateFormatted
                 \o SubSeq(versionSuffix, j + 1, Len(versionSuffix))

\* s.replace('*', rep): only the first "*" replaced
RECURSIVE ReplaceFirstStar(_, _)
ReplaceFirstStar(s, rep) ==
    IF s = <<>> THEN <<>>
    ELSE IF Head(s) = "*" THEN rep \o Tail(s)
    ELSE <<Head(s)>> \o ReplaceFirstStar(Tail(s), rep)

\* The replacement without the g flag of the pattern
_performHashReplacementNoGlobalFlag(versionSuffix, sha) ==
    LET shortSha == Substring0(sha, ShortShaLen)
    IN  ReplaceFirstStar(versionSuffix, shortSha)

_performHashReplacement(versionSuffix, sha) ==
    LET shortSha == Substring0(sha, ShortShaLen)
    IN  ReplaceStars(versionSuffix, shortSha)

\* branchVersionSuffixes.find(f => f.startsWith(headBranch)): index, 0 if none
FindSetting(settings, branch) ==
    IF \E i \in 1..Len(settings) : StartsWith(settings[i], branch)
    THEN CHOOSE i \in 1..Len(settings) :
            /\ StartsWith(settings[i], branch)
            /\ \A k \in 1..(i - 1) : ~ StartsWith(settings[k], branch)
    ELSE 0

\* match() on the undefined second piece of an entry without "=" throws
SuffixThrows(settings, branch) ==
    LET k == FindSetting(settings, branch)
    IN  k # 0 /\ settings[k] # <<>> /\ SplitSecond(settings[k]) = Undefined

_getBranchVersionSuffix(settings, branch, sha) ==
    LET k == FindSetting(settings, branch)
    IN  IF k = 0 \/ settings[k] = <<>> THEN <<>>
        ELSE _performHashReplacement(_performDateInfill(SplitSecond(settings[k])), sha)

\* ------------------------------------------------------------ run state
VARIABLES
    nugetSource,        \* INPUT_NUGET_SOURCE is set
    nugetKey,           \* INPUT_NUGET_KEY is set
    githubToken,        \* INPUT_REPO_TOKEN is set
    headBranch,         \* this.headBranch
    projectFiles,       \* this.projectFiles, the projects 1..n in input order
    manifest,           \* per project: the version its file declares, "nomatch"
                        \* (no <Version> line) or "missing" (no such file)
    pc,                 \* position of the run chain
    idx,                \* loop position in projectFiles / requiresPublishing
    projectVersions,    \* this.projectVersions, "undefined" where unset
    readPending,        \* projects whose fs.readFile callback has not fired
    requiresPublishing, \* this.requiresPublishing
    errors,             \* the messages _printErrorAndBail has reported
    thisVersion,        \* thisVersion captured by the query in flight
    queried,            \* projects a registry query was issued for, in order
    responses,          \* what the registry answered, per query
    tagName,            \* tagName computed by tagCommit, <<>> before
    tags,               \* names returned by _getExistingTags
    createTagCalls,     \* tag names passed to gh.git.createTag
    createRefCalls,     \* tag names passed to gh.git.createRef
    built,              \* projects dotnet build was run for
    packed,             \* projects dotnet pack was run for
    cmdFailed,          \* projects whose build or pack command exited non-zero
    pushCalls,          \* number of dotnet nuget push invocations
    exit,               \* process exit status: "running", "success", "failure"
    tested,             \* thisVersion of every query issued, in order
    inFlight,           \* network requests issued and not yet answered
    repoTags,           \* names of the tags the repository holds
    createdRefs,        \* the references gh.git.createRef has created
    workdir,            \* files of the working directory, <<extension, project>>
    builtVersions,      \* package version of every dotnet build, in order
    pushOutput,         \* what dotnet nuget push wrote, empty before
    runSettled,         \* the promise of run() is settled: 'done' is logged
    sfxSettings,        \* suffix computation alone: this.branchVersionSuffixes
    sfxBranch,          \*   this.headBranch
    sfxSha,             \*   the commit hash
    sfxValue,           \*   the local variable result
    sfxStage            \*   position in _getBranchVersionSuffix

vars == << nugetSource, nugetKey, githubToken, headBranch, projectFiles, manifest,
           pc, idx, projectVersions, readPending, requiresPublishing, errors,
           thisVersion, queried, responses, tagName, tags, createTagCalls,
           createRefCalls, built, packed, cmdFailed, pushCalls, exit,
           tested, inFlight, repoTags, createdRefs, workdir, builtVersions,
           pushOutput, runSettled,
           sfxSettings, sfxBranch, sfxSha, sfxValue, sfxStage >>

suffixVars == << sfxSettings, sfxBranch, sfxSha, sfxValue, sfxStage >>
\* What no action of a run changes: its inputs, and the suffix computation
\* that is explored on its own
config == << nugetSource, nugetKey, githubToken, headBranch, projectFiles, manifest,
             suffixVars >>
runVars == << nugetSource, nugetKey, githubToken, headBranch, projectFiles, manifest,
              pc, idx, projectVersions, readPending, requiresPublishing, errors,
              thisVersion, queried, responses, tagName, tags, createTagCalls,
              createRefCalls, built, packed, cmdFailed, pushCalls, exit,
              tested, inFlight, repoTags, createdRefs, workdir, builtVersions,
              pushOutput, runSettled >>
tagging == << tagName, tags, createTagCalls, createRefCalls, repoTags, createdRefs >>
building == << built, packed, cmdFailed, pushCalls, workdir, builtVersions,
              pushOutput >>
querying == << thisVersion, queried, responses, tested >>

ManifestKinds == Versions \cup {"nomatch", "missing"}

\* core.error + core.setFailed: the message is recorded, nothing is thrown
_printErrorAndBail(errs, kind, pf) == errs \cup { <<kind, pf>> }

\* core.setFailed has been called: process.exitCode is 1
Failed == errors # {}

\* What the registry can answer to GET {source}/v3-flatcontainer/{name}/index.json
RegistryResponses ==
    { [kind |-> "404", versions |-> {}],
      [kind |-> "200", versions |-> {"1.2.0"}],
      [kind |-> "malformed", versions |-> {}],
      [kind |-> "status", versions |-> {}],
      [kind |-> "transport", versions |-> {}] }

SuffixIdle ==
    /\ sfxSettings = <<>>
    /\ sfxBranch = <<>>
    /\ sfxSha = <<>>
    /\ sfxValue = <<>>
    /\ sfxStage = "idle"

\* What an earlier run left in the working directory besides the sources
LeftOverFiles == { <<"nupkg", 0>>, <<"snupkg", 0>>, <<"csproj", 0>> }

\* constructor
Init ==
    /\ SuffixIdle
    /\ nugetSource \in BOOLEAN
    /\ nugetKey \in BOOLEAN
    /\ githubToken \in BOOLEAN
    /\ headBranch \in Branches
    /\ \E n \in 1..MaxProjects :
          /\ projectFiles = [i \in 1..n |-> i]
          /\ manifest \in [1..n -> ManifestKinds]
          /\ projectVersions = [i \in 1..n |-> "undefined"]
    /\ pc = "ensureFormat"
    /\ idx = 1
    /\ readPending = {}
    /\ requiresPublishing = <<>>
    /\ errors = (IF nugetSource THEN {} ELSE _printErrorAndBail({}, "ConfigSource", 0))
                    \cup (IF nugetKey THEN {} ELSE _printErrorAndBail({}, "ConfigKey", 0))
    /\ thisVersion = "undefined"
    /\ queried = <<>>
    /\ responses = <<>>
    /\ tagName = <<>>
    /\ tags = {}
    /\ createTagCalls = <<>>
    /\ createRefCalls = <<>>
    /\ built = <<>>
    /\ packed = <<>>
    /\ cmdFailed = {}
    /\ pushCalls = 0
    /\ exit = "running"
    /\ tested = <<>>
    /\ inFlight = 0
    /\ repoTags = {}
    /\ createdRefs = {}
    /\ workdir = LeftOverFiles
    /\ builtVersions = <<>>
    /\ pushOutput = [stdout |-> <<>>, stderr |-> <<>>]
    /\ runSettled = FALSE

ensureFormat ==
    /\ pc = "ensureFormat"
    /\ errors' = IF Len(projectFiles) = 0
                 THEN _printErrorAndBail(errors, "Config", 0) ELSE errors
    /\ pc' = "ensureExists"
    /\ UNCHANGED << config, idx, projectVersions, readPending, requiresPublishing,
                    querying, tagging, building, exit, inFlight, runSettled >>

\* fs.existsSync fails for the projects whose file is missing
_checkIfProjectExists(errs, pf) ==
    IF manifest[pf] = "missing" THEN _printErrorAndBail(errs, "ProjectNotFound", pf)
    ELSE errs

RECURSIVE CheckAllExist(_, _)
CheckAllExist(errs, i) ==
    IF i > Len(projectFiles) THEN errs
    ELSE CheckAllExist(_checkIfProjectExists(errs, projectFiles[i]), i + 1)

ensureExists ==
    /\ pc = "ensureExists"
    /\ errors' = CheckAllExist(errors, 1)
    /\ pc' = "getFileVersions"
    /\ UNCHANGED << config, idx, projectVersions, readPending, requiresPublishing,
                    querying, tagging, building, exit, inFlight, runSettled >>

\* fs.readFile is started for every project; the promise resolves at once
getFileVersions ==
    /\ pc = "getFileVersions"
    /\ readPending' = { projectFiles[i] : i \in 1..Len(projectFiles) }
    /\ pc' = "determine"
    /\ idx' = 1
    /\ UNCHANGED << config, projectVersions, requiresPublishing, errors,
                    querying, tagging, building, exit, inFlight, runSettled >>

\* The chain is waiting on the event loop: pending callbacks may run
Waiting ==
    pc \in {"awaitQuery", "awaitListTags", "awaitCreateTag", "awaitCreateRef",
            "hung", "finished"}

\* The callback of fs.readFile for pf
ReadFileCallback(pf) ==
    /\ Waiting
    /\ pf \in readPending
    /\ readPending' = readPending \ {pf}
    /\ IF manifest[pf] = "missing"
       THEN /\ errors' = _printErrorAndBail(
                            _printErrorAndBail(errors, "ReadError", pf),
                            "VersionParse", pf)
            /\ UNCHANGED projectVersions
       ELSE IF manifest[pf] = "nomatch"
       THEN /\ errors' = _printErrorAndBail(errors, "VersionParse", pf)
            /\ UNCHANGED projectVersions
       ELSE /\ projectVersions' = [projectVersions EXCEPT ![pf] = manifest[pf]]
            /\ UNCHANGED errors
    /\ UNCHANGED << config, pc, idx, requiresPublishing, querying, tagging,
                    building, exit, inFlight, runSettled >>

\* A .catch attached before the next stage instead of after it: the chain
\* goes on with startBuilding once the rejection is logged
CaughtBeforeNextStage == "startBuilding"

\* A rejection anywhere in the chain is taken by the nearest .catch, which
\* logs it with core.info; run() then resolves and 'done' is logged.
Caught == "finished"

\* The loop of determineIfPublishingIsNeeded with its await dropped: the
\* next iteration starts while a query is still unanswered
LoopNotAwaited == pc \in {"determine", "awaitQuery"}

\* for await (const pf of this.projectFiles) { await ... }: an iteration
\* starts when the one before it has been answered
LoopAtHead == pc = "determine"

\* determineIfPublishingIsNeeded, loop head: _getVersionExists(pf) reads
\* this.projectVersions[pf] and issues the request. https.get throws on the
\* URL "undefined/v3-flatcontainer/..." when the source is unset.
IssueQuery ==
    /\ LoopAtHead
    /\ idx <= Len(projectFiles)
    /\ IF ~ nugetSource
       THEN /\ pc' = Caught
            /\ runSettled' = TRUE
            /\ UNCHANGED << querying, inFlight >>
       ELSE /\ thisVersion' = projectVersions[projectFiles[idx]]
            /\ tested' = Append(tested, thisVersion')
            /\ queried' = Append(queried, projectFiles[idx])
            /\ inFlight' = inFlight + 1
            /\ pc' = "awaitQuery"
            /\ UNCHANGED << responses, runSettled >>
    /\ UNCHANGED << config, idx, projectVersions, readPending, requiresPublishing,
                    errors, tagging, building, exit >>

\* resolve(remoteVersions["versions"].indexOf(thisVersion) > -1)
_getVersionExists(resp, version) ==
    IF resp.kind = "404" THEN FALSE ELSE IndexOfFound(resp.versions, version)

\* The response callback of https.get, and the .then of the loop body
QueryResponse ==
    /\ pc = "awaitQuery"
    /\ inFlight' = inFlight - 1
    /\ \E resp \in RegistryResponses :
          LET pf == projectFiles[idx] IN
          /\ responses' = Append(responses, resp)
          /\ IF resp.kind \in {"404", "200"}
             THEN /\ requiresPublishing' =
                        IF ~ _getVersionExists(resp, thisVersion)
                        THEN Append(requiresPublishing, pf)
                        ELSE requiresPublishing
                  /\ idx' = idx + 1
                  /\ pc' = "determine"
                  /\ UNCHANGED << errors, exit >>
             ELSE IF resp.kind = "malformed"
             \* JSON.parse or .indexOf throws in the 'end' listener: uncaught
             THEN /\ pc' = "exited"
                  /\ exit' = "failure"
                  /\ UNCHANGED << errors, requiresPublishing, idx >>
             \* another status, or the request's 'error' event: the message
             \* is reported and the promise is never settled
             ELSE /\ errors' = _printErrorAndBail(errors, "RemoteQuery", pf)
                  /\ pc' = "hung"
                  /\ UNCHANGED << requiresPublishing, idx, exit >>
    /\ UNCHANGED << config, projectVersions, readPending, thisVersion, queried,
                    tested, tagging, building, runSettled >>

\* The test tagCommit would make with the negation lost
IsTaggableNegationLost(branch) == ~ Includes(TagCommits, branch)

\* this.tagCommits.includes(this.headBranch)
IsTaggable(branch) == Includes(TagCommits, branch)

\* tagCommit up to the first await
tagCommit ==
    /\ LoopAtHead
    /\ idx > Len(projectFiles)
    /\ IF ~ IsTaggable(headBranch)
       THEN /\ pc' = "startBuilding"
            /\ UNCHANGED << tagName, errors, inFlight, runSettled >>
       ELSE IF SuffixThrows(BranchVersionSuffixes, headBranch)
       THEN /\ pc' = Caught
            /\ runSettled' = TRUE
            /\ UNCHANGED << tagName, errors, inFlight >>
       ELSE LET versionSuffix == _getBranchVersionSuffix(BranchVersionSuffixes,
                                                          headBranch, CommitSha)
                version == projectVersions[projectFiles[1]]
                tagFormatted == ReplaceStars(TagFormat, <<version>>)
            IN  /\ tagName' = tagFormatted \o versionSuffix
                \* _getGitHub: without a token the message is reported and
                \* github.getOctokit throws
                /\ IF ~ githubToken
                   THEN /\ errors' = _printErrorAndBail(errors, "ConfigToken", 0)
                        /\ pc' = Caught
                        /\ runSettled' = TRUE
                        /\ UNCHANGED inFlight
                   ELSE /\ pc' = "awaitListTags"
                        /\ inFlight' = inFlight + 1
                        /\ UNCHANGED << errors, runSettled >>
    /\ UNCHANGED << config, idx, projectVersions, readPending, requiresPublishing,
                    querying, tags, createTagCalls, createRefCalls, repoTags,
                    createdRefs, building, exit >>

\* Tag names the repository may hold besides the computed one
OtherTag == <<"v", "0.9.0">>

\* The repository holds the computed tag and the listing shows it; it holds
\* it and the listing call fails; or it does not hold it
TagListings ==
    { [repo |-> {OtherTag, tagName}, failed |-> FALSE],
      [repo |-> {OtherTag, tagName}, failed |-> TRUE],
      [repo |-> {OtherTag}, failed |-> FALSE] }

\* gh.repos.listTags(...); catch (e) { tags = { data: [] } }
_getExistingTags(listing) == IF listing.failed THEN {} ELSE listing.repo

\* gh.repos.listTags answers or fails (then the list is empty); every listed
\* tag is compared with tagName
ListTagsResponse ==
    /\ pc = "awaitListTags"
    /\ inFlight' = inFlight - 1
    /\ \E listing \in TagListings :
          /\ repoTags' = listing.repo
          /\ tags' = _getExistingTags(listing)
          /\ errors' = IF \E t \in tags' : t = tagName
                       THEN _printErrorAndBail(errors, "DuplicateTag", 0)
                       ELSE errors
    /\ pc' = "createTag"
    /\ UNCHANGED << config, idx, projectVersions, readPending, requiresPublishing,
                    querying, tagName, createTagCalls, createRefCalls, createdRefs,
                    building, exit, runSettled >>

\* await gh.git.createTag({tag: tagName, ...})
CreateTagCall ==
    /\ pc = "createTag"
    /\ createTagCalls' = Append(createTagCalls, tagName)
    /\ inFlight' = inFlight + 1
    /\ pc' = "awaitCreateTag"
    /\ UNCHANGED << config, idx, projectVersions, readPending, requiresPublishing,
                    errors, querying, tagName, tags, createRefCalls, repoTags,
                    createdRefs, building, exit, runSettled >>

\* createTag resolves, and createRef is issued; or it rejects
CreateTagResponse ==
    /\ pc = "awaitCreateTag"
    /\ \E ok \in BOOLEAN :
          IF ok
          THEN /\ createRefCalls' = Append(createRefCalls, tagName)
               /\ pc' = "awaitCreateRef"
               /\ UNCHANGED << inFlight, runSettled >>
          ELSE /\ pc' = Caught
               /\ inFlight' = inFlight - 1
               /\ runSettled' = TRUE
               /\ UNCHANGED createRefCalls
    /\ UNCHANGED << config, idx, projectVersions, readPending, requiresPublishing,
                    errors, querying, tagName, tags, createTagCalls, repoTags,
                    createdRefs, building, exit >>

\* The object gh.git.createTag creates: an annotated tag on the commit
TagObjectSha == <<"7","a","9">>

\* gh.git.createRef({ref: `refs/tags/${tagName}`, sha: sha})
CreateRefRequest(name, sha) == [ref |-> <<"refs/tags/">> \o name, sha |-> sha]

\* createRef resolves, or rejects; the API rejects a reference that exists
CreateRefResponse ==
    /\ pc = "awaitCreateRef"
    /\ inFlight' = inFlight - 1
    /\ \E ok \in BOOLEAN :
          IF ok /\ tagName \notin repoTags
          THEN /\ createdRefs' = createdRefs \cup {CreateRefRequest(tagName, CommitSha)}
               /\ repoTags' = repoTags \cup {tagName}
               /\ pc' = "startBuilding"
               /\ UNCHANGED runSettled
          ELSE /\ pc' = Caught
               /\ runSettled' = TRUE
               /\ UNCHANGED << repoTags, createdRefs >>
    /\ UNCHANGED << config, idx, projectVersions, readPending, requiresPublishing,
                    errors, querying, tagName, tags, createTagCalls, createRefCalls,
                    building, exit >>

\* The test with the pattern /\.nupkg$/, which leaves symbol packages
IsPackageFileNupkgOnly(f) == f[1] = "nupkg"

\* /\.s?nupkg$/.test(f)
IsPackageFile(f) == f[1] \in {"nupkg", "snupkg"}

\* startBuilding, before the loop: the package files are unlinked
startBuilding ==
    /\ pc = "startBuilding"
    /\ workdir' = { f \in workdir : ~ IsPackageFile(f) }
    /\ idx' = 1
    /\ pc' = "build"
    /\ UNCHANGED << config, projectVersions, readPending, requiresPublishing,
                    errors, querying, tagging, built, packed, cmdFailed, pushCalls,
                    builtVersions, pushOutput, exit, inFlight, runSettled >>

\* spawnSync returns the child's status; _runCommandInProcess drops it
_runCommandInProcess(failedCmds, pf, status) ==
    IF status # 0 THEN failedCmds \cup {pf} ELSE failedCmds

\* this._getBranchVersionSuffix() on every branch a run can be on
BranchVersionSuffix ==
    [ b \in Branches |-> _getBranchVersionSuffix(BranchVersionSuffixes, b, CommitSha) ]

\* The version the build gives the package: -p:PackageVersion when the
\* suffix is not empty, what the project file declares otherwise
PackageVersion(pf) ==
    LET packageVersion == projectVersions[pf]
        versionSuffix == BranchVersionSuffix[headBranch]
    IN  IF versionSuffix # <<>>
        THEN <<packageVersion, "-">> \o versionSuffix
        ELSE <<manifest[pf]>>

\* dotnet build -c Release {pf}
BuildCommand ==
    /\ pc = "build"
    /\ idx <= Len(requiresPublishing)
    /\ \E status \in {0, 1} :
          cmdFailed' = _runCommandInProcess(cmdFailed, requiresPublishing[idx], status)
    /\ built' = Append(built, requiresPublishing[idx])
    /\ builtVersions' = Append(builtVersions, PackageVersion(requiresPublishing[idx]))
    /\ pc' = "pack"
    /\ UNCHANGED << config, idx, projectVersions, readPending, requiresPublishing,
                    errors, querying, tagging, packed, pushCalls, workdir,
                    pushOutput, exit, inFlight, runSettled >>

\* dotnet pack --no-build -c Release {pf} -o .: without the output of a
\* build there is nothing to pack
PackCommand ==
    /\ pc = "pack"
    /\ \E status \in (IF requiresPublishing[idx] \in cmdFailed THEN {1} ELSE {0, 1}) :
          /\ cmdFailed' = _runCommandInProcess(cmdFailed, requiresPublishing[idx], status)
          /\ workdir' = IF status = 0
                        THEN workdir \cup { <<"nupkg", requiresPublishing[idx]>> }
                        ELSE workdir
    /\ packed' = Append(packed, requiresPublishing[idx])
    /\ idx' = idx + 1
    /\ pc' = "build"
    /\ UNCHANGED << config, projectVersions, readPending, requiresPublishing,
                    errors, querying, tagging, built, pushCalls, builtVersions,
                    pushOutput, exit, inFlight, runSettled >>

\* What dotnet nuget push can write, line by line
PushOutputs ==
    { [stdout |-> <<"Pushing", "Your package was pushed.">>, stderr |-> <<>>],
      [stdout |-> <<"Pushing", "error: Response status code 403">>, stderr |-> <<>>],
      [stdout |-> <<"Pushing">>, stderr |-> <<"error: Response status code 403">>] }

\* /error/.test(text)
RegexTestError(text) ==
    \E i \in 1..Len(text) : text[i] = "error: Response status code 403"

\* dotnet nuget push *.nupkg ...; its stdout is searched for "error"
pushToServer ==
    /\ pc = "build"
    /\ idx > Len(requiresPublishing)
    /\ pushCalls' = pushCalls + 1
    /\ \E out \in PushOutputs :
          LET pushResults == out.stdout IN
          /\ pushOutput' = out
          /\ errors' = IF RegexTestError(pushResults)
                       THEN _printErrorAndBail(errors, "Push", 0) ELSE errors
    /\ pc' = "finished"
    /\ runSettled' = TRUE
    /\ UNCHANGED << config, idx, projectVersions, readPending, requiresPublishing,
                    querying, tagging, built, packed, cmdFailed, workdir,
                    builtVersions, exit, inFlight >>

\* Nothing is left on the event loop: the process ends with process.exitCode
ProcessExit ==
    /\ pc \in {"finished", "hung"}
    /\ readPending = {}
    /\ exit' = IF Failed THEN "failure" ELSE "success"
    /\ pc' = "exited"
    /\ UNCHANGED << config, idx, projectVersions, readPending, requiresPublishing,
                    errors, querying, tagging, building, inFlight, runSettled >>

Next ==
    \/ ensureFormat
    \/ ensureExists
    \/ getFileVersions
    \/ \E pf \in 1..MaxProjects : ReadFileCallback(pf)
    \/ IssueQuery
    \/ QueryResponse
    \/ tagCommit
    \/ ListTagsResponse
    \/ CreateTagCall
    \/ CreateTagResponse
    \/ CreateRefResponse
    \/ startBuilding
    \/ BuildCommand
    \/ PackCommand
    \/ pushToServer
    \/ ProcessExit

Spec == Init /\ [][Next]_vars

\* ------------------------------------------- the suffix computation alone
\* _getBranchVersionSuffix applied to bounded inputs, statement by statement.
SuffixAlphabet == {"*", "{", "}", "=", "d", "-"}
SeqsUpTo(S, n) == UNION { [1..k -> S] : k \in 0..n }
\* The rule of the specification's example, pre-{yyMMdd}-*
ExampleTemplate == <<"p","r","e","-","{","y","y","M","M","d","d","}","-","*">>
SuffixBodies == SeqsUpTo(SuffixAlphabet, MaxTemplateLen) \cup {ExampleTemplate}
ShortCommitSha == <<"a","b","c">>

\* A run that never starts: the state of the pipeline in the suffix specification
RunIdle ==
    /\ nugetSource = TRUE
    /\ nugetKey = TRUE
    /\ githubToken = TRUE
    /\ headBranch = <<"d","e","v","e","l","o","p">>
    /\ projectFiles = <<1>>
    /\ manifest = <<"1.2.0">>
    /\ projectVersions = <<"undefined">>
    /\ pc = "idle"
    /\ idx = 1
    /\ readPending = {}
    /\ requiresPublishing = <<>>
    /\ errors = {}
    /\ thisVersion = "undefined"
    /\ queried = <<>>
    /\ responses = <<>>
    /\ tagName = <<>>
    /\ tags = {}
    /\ createTagCalls = <<>>
    /\ createRefCalls = <<>>
    /\ built = <<>>
    /\ packed = <<>>
    /\ cmdFailed = {}
    /\ pushCalls = 0
    /\ exit = "running"
    /\ tested = <<>>
    /\ inFlight = 0
    /\ repoTags = {}
    /\ createdRefs = {}
    /\ workdir = LeftOverFiles
    /\ builtVersions = <<>>
    /\ pushOutput = [stdout |-> <<>>, stderr |-> <<>>]
    /\ runSettled = FALSE

SuffixInit ==
    /\ RunIdle
    /\ sfxBranch = <<"d","e","v","e","l","o","p">>
    /\ \E body \in SuffixBodies : sfxSettings = << sfxBranch \o <<"=">> \o body >>
    /\ sfxSha \in {CommitSha, ShortCommitSha}
    /\ sfxValue = <<>>
    /\ sfxStage = "input"

\* const setting = find(...); if (!setting ...) return ''; result = split[1]
SuffixSelect ==
    /\ sfxStage = "input"
    /\ LET k == FindSetting(sfxSettings, sfxBranch) IN
       IF k = 0 \/ sfxSettings[k] = <<>>
       THEN sfxValue' = <<>> /\ sfxStage' = "done"
       ELSE IF SuffixThrows(sfxSettings, sfxBranch)
       THEN sfxValue' = <<>> /\ sfxStage' = "threw"
       ELSE sfxValue' = SplitSecond(sfxSettings[k]) /\ sfxStage' = "split"
    /\ UNCHANGED << runVars, sfxSettings, sfxBranch, sfxSha >>

\* result = this._performDateInfill(result)
SuffixDateInfill ==
    /\ sfxStage = "split"
    /\ sfxValue' = _performDateInfill(sfxValue)
    /\ sfxStage' = "dated"
    /\ UNCHANGED << runVars, sfxSettings, sfxBranch, sfxSha >>

\* result = this._performHashReplacement(result); return result
SuffixHashReplacement ==
    /\ sfxStage = "dated"
    /\ sfxValue' = _performHashReplacement(sfxValue, sfxSha)
    /\ sfxStage' = "done"
    /\ UNCHANGED << runVars, sfxSettings, sfxBranch, sfxSha >>

SuffixNext == SuffixSelect \/ SuffixDateInfill \/ SuffixHashReplacement

SuffixSpec == SuffixInit /\ [][SuffixNext]_vars

\* ================================================================ claims
\* The current branch is one of the entries of TAG_COMMIT
Taggable == \E i \in 1..Len(TagCommits) : TagCommits[i] = headBranch

\* A pipeline action is performed by a step: a registry query, createTag,
\* createRef, a build, a pack or a push
PipelineActionInStep ==
    \/ queried' # queried
    \/ createTagCalls' # createTagCalls
    \/ createRefCalls' # createRefCalls
    \/ built' # built
    \/ packed' # packed
    \/ pushCalls' # pushCalls

\* C1: once a fatal error has been reported by _printErrorAndBail, no later
\* step of the run performs a pipeline action (query, createTag, createRef,
\* build, pack, push).
C1_FailFast == [][Failed => ~ PipelineActionInStep]_vars

\* C2: when the computed tag name is among the names the tag listing
\* returned, createTag and createRef are never called.
C2_DuplicateTagNeverCreated ==
    (tagName \in tags) => (createTagCalls = <<>> /\ createRefCalls = <<>>)

\* The version set the registry returned for the i-th project (empty on 404)
RemoteVersionSet(i) == responses[i].versions

NeedsPublishing(pf) == manifest[pf] \notin RemoteVersionSet(pf)

\* C3: when the build stage starts, requiresPublishing is exactly the
\* projects, in input order, whose declared version is not in the version
\* set the registry returned for them.
C3_DecisionSetExact ==
    (pc = "startBuilding") =>
        requiresPublishing = SelectSeq(projectFiles, NeedsPublishing)

\* Every project was answered 200 with a version set holding its version
AllVersionsPublished ==
    /\ Len(responses) = Len(projectFiles)
    /\ \A i \in 1..Len(projectFiles) :
          /\ responses[i].kind = "200"
          /\ manifest[projectFiles[i]] \in responses[i].versions

\* C4: in a run where every project's version is already in the registry,
\* no build, pack or push command is invoked.
C4_NothingToPublishNothingRun ==
    AllVersionsPublished => (built = <<>> /\ packed = <<>> /\ pushCalls = 0)

\* Every stage of the run completed
AllStagesCompleted ==
    /\ \A i \in 1..Len(projectFiles) : projectVersions[projectFiles[i]] \in Versions
    /\ Len(responses) = Len(projectFiles)
    /\ \A i \in 1..Len(responses) : responses[i].kind \in {"404", "200"}
    /\ Taggable => (Len(createTagCalls) = 1 /\ Len(createRefCalls) = 1)
    /\ built = requiresPublishing
    /\ packed = requiresPublishing
    /\ cmdFailed = {}
    /\ pushCalls = 1
    /\ ~ Failed

\* C5: the process ends with success status only if every stage completed.
C5_SuccessOnlyIfComplete == (exit = "success") => AllStagesCompleted

\* C6: a build or pack command that exits non-zero is reported as a
\* BuildError for its project, and no later build and no push is invoked.
C6_BuildFailureStops ==
    \A pf \in cmdFailed :
        /\ <<"Build", pf>> \in errors
        /\ built[Len(built)] = pf
        /\ pushCalls = 0

\* C7: a registry answer that is another status, a malformed 200 body or a
\* transport error is reported as a RemoteQueryError for that project, the
\* run does not succeed, and that project is not in the decision set.
C7_RemoteFailureReported ==
    \A i \in 1..Len(responses) :
        responses[i].kind \in {"malformed", "status", "transport"} =>
            /\ <<"RemoteQuery", projectFiles[i]>> \in errors
            /\ exit # "success"
            /\ ~ Includes(requiresPublishing, projectFiles[i])

\* The chain is past tagCommit's branch test and suffix computation
PastTagCommit ==
    pc \in {"awaitListTags", "createTag", "awaitCreateTag", "awaitCreateRef",
            "startBuilding", "build", "pack"}

\* C8: createTag and createRef are issued only on a branch of TAG_COMMIT;
\* on such a branch the tag is computed and, before any build, tagging is
\* carried out, whatever the decision set holds.
C8_TagOnlyOnTaggableBranch ==
    /\ (createTagCalls # <<>> \/ createRefCalls # <<>>) => Taggable
    /\ (Taggable /\ PastTagCommit) => tagName # <<>>
    /\ (Taggable /\ pc \in {"startBuilding", "build", "pack"}) =>
            (Len(createTagCalls) = 1 /\ Len(createRefCalls) = 1)
    /\ (~ Taggable) => tagName = <<>>

\* C8 witness: a tag reference was created on a taggable branch while only
\* one of two projects is in the decision set.
C8_Witness ==
    /\ Taggable
    /\ createRefCalls # <<>>
    /\ Len(projectFiles) = 2
    /\ Len(requiresPublishing) = 1
    /\ pc = "build"

\* The tag name the claim describes: the format with "*" replaced by the
\* version the first project declares, then the branch suffix
ExpectedTagName ==
    ReplaceStars(TagFormat, << manifest[projectFiles[1]] >>)
        \o _getBranchVersionSuffix(BranchVersionSuffixes, headBranch, CommitSha)

\* C9: every tag name passed to createTag or createRef is the format with
\* "*" replaced by the first project's extracted version, followed by the
\* suffix; the embedded version is never an unset value.
C9_TagNameEmbedsFirstVersion ==
    \A i \in 1..Len(createTagCalls) :
        /\ manifest[projectFiles[1]] \in Versions
        /\ createTagCalls[i] = ExpectedTagName
        /\ \A k \in 1..Len(createTagCalls[i]) : createTagCalls[i][k] # "undefined"

\* ------------------------------------------------ claims on the suffix
\* The template of the single configured entry branch=template: the text
\* after the first "=" up to the next "=" or the end of the entry
DeclaredTemplate ==
    LET entry == sfxSettings[1]
        body == SubSeq(entry, Len(sfxBranch) + 2, Len(entry))
        stops == { k \in 1..Len(body) : body[k] = "=" }
        end == IF stops = {} THEN Len(body)
               ELSE (CHOOSE k \in stops : \A m \in stops : k <= m) - 1
    IN  SubSeq(body, 1, end)

\* t[i..j] is a date placeholder {format} with a non-empty format
Placeholder(t, i, j) ==
    /\ i + 1 < j
    /\ t[i] = "{"
    /\ t[j] = "}"
    /\ \A k \in (i + 1)..(j - 1) : t[k] # "}"

FirstPlaceholder(t, i, j) ==
    /\ Placeholder(t, i, j)
    /\ \A i2 \in 1..(i - 1) : \A j2 \in 1..Len(t) : ~ Placeholder(t, i2, j2)

RECURSIVE ConcatPieces(_, _)
ConcatPieces(pieces, n) ==
    IF n = 0 THEN <<>> ELSE ConcatPieces(pieces, n - 1) \o pieces[n]

\* t with every "*" replaced by the first 7 symbols of the hash
StarsFilled(t, sha) ==
    LET short == [k \in 1..(IF Len(sha) < 7 THEN Len(sha) ELSE 7) |-> sha[k]]
    IN  ConcatPieces([k \in 1..Len(t) |-> IF t[k] = "*" THEN short ELSE <<t[k]>>],
                     Len(t))

\* C10: the computed suffix is the template with its date placeholder
\* replaced by the rendered timestamp and then every "*" replaced by the
\* first 7 characters of the commit hash; a template with neither is
\* returned unchanged.
C10_SuffixIsTemplateFilled ==
    (sfxStage = "done") =>
        LET t == DeclaredTemplate
            n == Len(t)
            none == \A i, j \in 1..n : ~ Placeholder(t, i, j)
        IN  /\ none => sfxValue = StarsFilled(t, sfxSha)
            /\ \A i, j \in 1..n :
                  FirstPlaceholder(t, i, j) =>
                      sfxValue = StarsFilled(SubSeq(t, 1, i - 1)
                                                \o toFormat(SubSeq(t, i + 1, j - 1))
                                                \o SubSeq(t, j + 1, n), sfxSha)
            /\ (none /\ \A k \in 1..n : t[k] # "*") => sfxValue = t

\* C10 witness: the template pre-{yyMMdd}-* with the hash abc1234567 on
\* 2024-03-05 has yielded pre-240305-abc1234.
C10_Witness ==
    /\ sfxStage = "done"
    /\ DeclaredTemplate = ExampleTemplate
    /\ sfxSha = CommitSha
    /\ sfxValue = <<"p","r","e","-","2","4","0","3","0","5","-",
                    "a","b","c","1","2","3","4">>

\* ------------------------------------------- the rule selection alone
\* _getBranchVersionSuffix with several branches and several entries
MaxRules == 2

Develop == <<"d","e","v","e","l","o","p">>
MatchBranches == { Develop, <<"d","e","v">>, <<"m","a","i","n">>, Develop \o <<"2">> }
MatchEntries ==
    { Develop \o <<"=","p","r","e">>,
      <<"m","a","i","n","=","r","c">>,
      <<"d","e","=","x">> }

\* (process.env.INPUT_BRANCH_VERSION_SUFFIXES || '').split(',')
MatchSettings ==
    { << <<>> >> } \cup UNION { [1..k -> MatchEntries] : k \in 1..MaxRules }

MatchInit ==
    /\ RunIdle
    /\ sfxBranch \in MatchBranches
    /\ sfxSettings \in MatchSettings
    /\ sfxSha \in {CommitSha, ShortCommitSha}
    /\ sfxValue = <<>>
    /\ sfxStage = "input"

MatchSpec == MatchInit /\ [][SuffixNext]_vars

\* ------------------------------------------------ claims on the run, II
\* C11: after the push command returns, the run fails with a PushError
\* exactly when its combined output, stdout and stderr, contains "error".
C11_PushErrorFromCombinedOutput ==
    (pushCalls > 0) =>
        (RegexTestError(pushOutput.stdout \o pushOutput.stderr)
            <=> (<<"Push", 0>> \in errors))

\* C12: every registry query of a project whose manifest declares a version
\* was issued, and its membership test made, with that extracted version,
\* never with an unset one.
C12_VersionExtractedBeforeQuery ==
    \A i \in 1..Len(queried) :
        manifest[queried[i]] \in Versions => tested[i] = manifest[queried[i]]

\* The decision the answer i stands for is in requiresPublishing
DecisionRecorded(i) ==
    Includes(requiresPublishing, projectFiles[i])
        <=> ~ (responses[i].kind = "200" /\ tested[i] \in responses[i].versions)

\* The reference refs/tags/{tagName} has been created by this run
TagReferenceCreated ==
    \E r \in createdRefs : r.ref = <<"refs/tags/">> \o tagName

DeterminationOver ==
    \/ pc \in {"awaitListTags", "createTag", "awaitCreateTag", "awaitCreateRef",
               "startBuilding", "build", "pack"}
    \/ pushCalls > 0

C15_RunPromiseSettles == (pc = "exited") => runSettled

\* C17: createRef is issued only after createTag, and the reference it
\* creates points at the tag object createTag created.
C17_RefPointsAtTagObject ==
    /\ Len(createRefCalls) <= Len(createTagCalls)
    /\ \A r \in createdRefs : r.sha = TagObjectSha

\* C18: while a createTag or createRef request is in flight, the computed
\* tag name is not the name of a tag the repository holds.
C18_TagNameFreshAtCreation ==
    (pc \in {"awaitCreateTag", "awaitCreateRef"}) => tagName \notin repoTags

\* The package files of the working directory
Artifacts == { f \in workdir : f[1] \in {"nupkg", "snupkg"} }

\* The package files the pack invocations of this run produced
PackedThisRun ==
    { <<"nupkg", packed[i]>> : i \in { k \in 1..Len(packed) : packed[k] \notin cmdFailed } }

C20_BuiltVersionIsTestedVersion ==
    (pushCalls > 0) =>
        \A i \in 1..Len(built) : builtVersions[i] = << tested[built[i]] >>

\* ------------------------------------------ claims on the rule selection
\* The branch pattern of an entry: the text before its first "="
BranchPattern(entry) ==
    LET stops == { k \in 1..Len(entry) : entry[k] = "=" }
    IN  IF stops = {} THEN entry
        ELSE SubSeq(entry, 1, (CHOOSE k \in stops : \A m \in stops : k <= m) - 1)

\* The pattern equals the branch name or is a prefix of it
PatternMatches(pattern, branch) ==
    /\ pattern # <<>>
    /\ Len(pattern) <= Len(branch)
    /\ \A k \in 1..Len(pattern) : pattern[k] = branch[k]

\* The entries whose pattern matches the current branch
MatchingRules ==
    { i \in 1..Len(sfxSettings) : PatternMatches(BranchPattern(sfxSettings[i]), sfxBranch) }

\* C16: the suffix is computed from an entry whose branch pattern matches
\* the current branch, exactly or as a prefix of it; an entry of a branch
\* the current one does not match is never applied, and without a matching
\* entry the suffix is empty.
C16_RuleMatchesBranch ==
    (sfxStage = "done") =>
        /\ (MatchingRules = {}) => sfxValue = <<>>
        /\ (sfxValue # <<>>) =>
              \E i \in MatchingRules :
                  sfxValue = SubSeq(sfxSettings[i], Len(BranchPattern(sfxSettings[i])) + 2,
                                    Len(sfxSettings[i]))

====
